---- MODULE Spec2Model ----
(***************************************************************************)
(* Model of converter/avcodecs.py: the translation of an encoding request  *)
(* (a codec object plus an option mapping) into an ffmpeg argument list.   *)
(*                                                                         *)
(* Python values are records [t, v]: t is the Python type, v the payload.  *)
(*   none  : v = 0                                                         *)
(*   int   : v is the integer                                              *)
(*   bool  : v is TRUE/FALSE                                               *)
(*   float : v is the number of hundredths (2.5 is 250); the requests of   *)
(*           the model only carry floats with at most two decimals         *)
(*   str   : v is the sequence of the string's pieces; a string that comes *)
(*           from a request is held character by character, so that        *)
(*           split(':') and int() are computed on its characters; Cat(v)   *)
(*           is the text                                                   *)
(* An exception is a name ("ValueError", "TypeError", ...); "none" is no   *)
(* exception.                                                              *)
(***************************************************************************)
EXTENDS Integers, Sequences, FiniteSets, TLC

VARIABLES pc, codec, opt, safe, loc, optlist, outcome,
          aac_experimental_enable,   \* the class attribute of AacCodec (line 538)
          served                     \* a call has returned in this process

vars == <<pc, codec, opt, safe, loc, optlist, outcome, aac_experimental_enable, served>>

(***************************************************************************)
(* Bounds of the model: the grids the source sizes and the maxima of the   *)
(* requests are drawn from.                                                *)
(***************************************************************************)
MaxSrcK == 3

MaxMaxK == 2

(***************************************************************************)
(* Python values                                                           *)
(***************************************************************************)
None == [t |-> "none", v |-> 0]

PyInt(n) == [t |-> "int", v |-> n]

PyBool(b) == [t |-> "bool", v |-> b]

PyFloat(c) == [t |-> "float", v |-> c]

\* a string held character by character (a request's string)
PyStr(chars) == [t |-> "str", v |-> chars]

\* a string literal of the source, or a string the code has formatted
Lit(s) == [t |-> "str", v |-> <<s>>]

RECURSIVE Cat(_)
Cat(pieces) == IF pieces = <<>> THEN "" ELSE Head(pieces) \o Cat(Tail(pieces))

\* a == b for a str b: the text is what is compared
StrEq(a, s) == a.t = "str" /\ Cat(a.v) = s

\* the truth value of a Python object, as `if x`, `not x`, bool(x) take it
Truthy(a) ==
  CASE a.t = "none" -> FALSE
    [] a.t = "bool" -> a.v
    [] a.t = "int" -> a.v # 0
    [] a.t = "float" -> a.v # 0
    [] a.t = "str" -> Cat(a.v) # ""

DigitChars == <<"0", "1", "2", "3", "4", "5", "6", "7", "8", "9">>

IsDigit(c) == \E d \in 1..10 : DigitChars[d] = c

DigitVal(c) == (CHOOSE d \in 1..10 : DigitChars[d] = c) - 1

RECURSIVE NatChars(_)
NatChars(n) ==
  IF n < 10 THEN <<DigitChars[n + 1]>>
  ELSE NatChars(n \div 10) \o <<DigitChars[(n % 10) + 1]>>

\* str(n), '{0}'.format(n), '%d' % n of an int, character by character
IntChars(n) == IF n < 0 THEN <<"-">> \o NatChars(-n) ELSE NatChars(n)

IntText(n) == Cat(IntChars(n))

\* str(f) of a float with at most two decimals: '2.5', '24.0', '0.25'
FloatChars(c) ==
  LET a == IF c < 0 THEN -c ELSE c
      frac == a % 100
      whole == NatChars(a \div 100)
      dec == IF frac % 10 = 0 THEN <<DigitChars[(frac \div 10) + 1]>>
             ELSE <<DigitChars[(frac \div 10) + 1], DigitChars[(frac % 10) + 1]>>
  IN  (IF c < 0 THEN <<"-">> ELSE <<>>) \o whole \o <<".">> \o dec

RECURSIVE DigitsValue(_)
DigitsValue(cs) ==
  IF cs = <<>> THEN 0
  ELSE 10 * DigitsValue(SubSeq(cs, 1, Len(cs) - 1)) + DigitVal(cs[Len(cs)])

AllDigits(cs) == cs # <<>> /\ \A i \in 1..Len(cs) : IsDigit(cs[i])

\* int(s) of a string: an optional sign and at least one digit, else ValueError
ParseInt(cs) ==
  LET signed == cs # <<>> /\ cs[1] \in {"-", "+"}
      body == IF signed THEN Tail(cs) ELSE cs
  IN  IF AllDigits(body)
      THEN [ok |-> TRUE,
            val |-> IF signed /\ cs[1] = "-" THEN -DigitsValue(body) ELSE DigitsValue(body)]
      ELSE [ok |-> FALSE, val |-> 0]

\* the position of the first c in cs, 0 when there is none
FirstIndex(cs, c) ==
  IF \E i \in 1..Len(cs) : cs[i] = c
  THEN CHOOSE i \in 1..Len(cs) : cs[i] = c /\ \A j \in 1..(i - 1) : cs[j] # c
  ELSE 0

\* float(s) of a string: digits, or digits '.' one or two digits (in hundredths)
ParseFloat(cs) ==
  LET signed == cs # <<>> /\ cs[1] \in {"-", "+"}
      body == IF signed THEN Tail(cs) ELSE cs
      dot == FirstIndex(body, ".")
      whole == SubSeq(body, 1, dot - 1)
      frac == SubSeq(body, dot + 1, Len(body))
      mag == IF dot = 0 THEN 100 * DigitsValue(body)
             ELSE 100 * DigitsValue(whole)
                  + (IF Len(frac) = 1 THEN 10 * DigitsValue(frac) ELSE DigitsValue(frac))
      good == IF dot = 0 THEN AllDigits(body)
              ELSE AllDigits(whole) /\ AllDigits(frac) /\ Len(frac) <= 2
  IN  IF good
      THEN [ok |-> TRUE, val |-> IF signed /\ cs[1] = "-" THEN -mag ELSE mag]
      ELSE [ok |-> FALSE, val |-> 0]

\* s.split(sep) on the characters of s
RECURSIVE Split(_, _)
Split(cs, sep) ==
  LET i == FirstIndex(cs, sep)
  IN  IF i = 0 THEN <<cs>>
      ELSE <<SubSeq(cs, 1, i - 1)>> \o Split(SubSeq(cs, i + 1, Len(cs)), sep)

\* int() truncates towards zero
TruncDiv(a, b) == IF a >= 0 THEN a \div b ELSE -((-a) \div b)

(***************************************************************************)
(* The constructors named in encoder_options, applied as typ(v).  The      *)
(* result is [ok, val]; ok = FALSE is an exception raised by typ(v).       *)
(***************************************************************************)
Fail == [ok |-> FALSE, val |-> None]

Ok(a) == [ok |-> TRUE, val |-> a]

\* str(a)
ToStr(a) ==
  CASE a.t = "str" -> Ok(a)
    [] a.t = "int" -> Ok(PyStr(IntChars(a.v)))
    [] a.t = "float" -> Ok(PyStr(FloatChars(a.v)))
    [] a.t = "bool" -> Ok(PyStr(IF a.v THEN <<"T", "r", "u", "e">>
                                ELSE <<"F", "a", "l", "s", "e">>))
    [] a.t = "none" -> Ok(PyStr(<<"N", "o", "n", "e">>))

\* int(a)
ToInt(a) ==
  CASE a.t = "int" -> Ok(a)
    [] a.t = "bool" -> Ok(PyInt(IF a.v THEN 1 ELSE 0))
    [] a.t = "float" -> Ok(PyInt(TruncDiv(a.v, 100)))
    [] a.t = "str" -> (LET p == ParseInt(a.v) IN IF p.ok THEN Ok(PyInt(p.val)) ELSE Fail)
    [] a.t = "none" -> Fail

\* float(a)
ToFloat(a) ==
  CASE a.t = "int" -> Ok(PyFloat(100 * a.v))
    [] a.t = "bool" -> Ok(PyFloat(IF a.v THEN 100 ELSE 0))
    [] a.t = "float" -> Ok(a)
    [] a.t = "str" -> (LET p == ParseFloat(a.v) IN IF p.ok THEN Ok(PyFloat(p.val)) ELSE Fail)
    [] a.t = "none" -> Fail

\* bool(a)
ToBool(a) == Ok(PyBool(Truthy(a)))

Coerce(typ, a) ==
  CASE typ = "str" -> ToStr(a)
    [] typ = "int" -> ToInt(a)
    [] typ = "float" -> ToFloat(a)
    [] typ = "bool" -> ToBool(a)

(***************************************************************************)
(* Python dicts are functions from keys (strings) to values.               *)
(***************************************************************************)
EmptyDict == [k \in {} |-> None]

Del(d, k) == [j \in (DOMAIN d) \ {k} |-> d[j]]

Put(d, k, a) == [j \in (DOMAIN d) \cup {k} |-> IF j = k THEN a ELSE d[j]]

Get(d, k, default) == IF k \in DOMAIN d THEN d[k] ELSE default

(***************************************************************************)
(* The codec classes.  kind is the class the codec derives its             *)
(* parse_options from: AudioCodec, VideoCodec, SubtitleCodec, or the       *)
(* pseudo-codecs that override it (null, copy).                            *)
(***************************************************************************)
BaseOptions == EmptyDict

AudioOptions ==
  [k \in {"codec", "channels", "bitrate", "samplerate", "filters"} |->
     CASE k \in {"codec", "filters"} -> "str"
       [] OTHER -> "int"]

SubtitleOptions ==
  [k \in {"codec", "language", "forced", "default"} |->
     CASE k \in {"codec", "language"} -> "str"
       [] OTHER -> "int"]

VideoOptions ==
  [k \in {"codec", "bitrate", "fps", "pix_fmt", "max_width", "max_height",
          "sizing_policy", "src_width", "src_height", "src_rotate", "crop",
          "filters", "autorotate", "bufsize"} |->
     CASE k \in {"codec", "pix_fmt", "sizing_policy", "crop", "filters"} -> "str"
       [] k \in {"bitrate", "fps"} -> "float"
       [] k = "autorotate" -> "bool"
       [] OTHER -> "int"]

\* encoder_options = Base.encoder_options.copy(); encoder_options.update(more)
Update(base, more) == more @@ base

H264Options ==
  [k \in {"preset", "quality", "profile", "tune", "level", "max_reference_frames",
          "max_rate", "max_frames_between_keyframes", "qmin", "qcomp",
          "keyint_min", "subq", "b-pyramid", "trellis"} |->
     CASE k \in {"preset", "profile", "tune", "level", "max_rate"} -> "str"
       [] k = "qcomp" -> "float"
       [] OTHER -> "int"]

Ffv1Options ==
  [k \in {"level", "coder", "context", "g", "slices", "slicecrc"} |-> "int"]

NvencCommonOptions ==
  [k \in {"preset", "profile", "level", "rc", "rc-lookahead", "surfaces", "cbr",
          "2pass", "gpu", "delay", "no-scenecut", "forced-idr", "zerolatency",
          "nonref_p", "strict_gop", "cq", "qmin", "qmax"} |->
     CASE k \in {"preset", "profile", "level", "rc"} -> "str"
       [] k \in {"rc-lookahead", "surfaces", "gpu", "delay"} -> "int"
       [] k \in {"cq", "qmin", "qmax"} -> "float"
       [] OTHER -> "bool"]

H264NvencOptions ==
  Update(NvencCommonOptions,
         [k \in {"b_adapt", "spatial-aq", "temporal-aq", "aq-strength"} |-> "bool"])

HEVCNvencOptions ==
  Update(NvencCommonOptions,
         [k \in {"tier", "spatial_aq", "temporal_aq", "aq-strength"} |->
            CASE k = "tier" -> "str"
              [] k = "aq-strength" -> "int"
              [] OTHER -> "bool"])

AudioCodecs == {"VorbisCodec", "AacCodec", "FdkAacCodec", "Ac3Codec", "FlacCodec",
                "DtsCodec", "Mp3Codec", "Mp2Codec"}

VideoCodecs == {"TheoraCodec", "H264Codec", "DivxCodec", "Vp8Codec", "H263Codec",
                "FlvCodec", "Ffv1Codec", "Mpeg1Codec", "Mpeg2Codec", "HEVCNvencCodec",
                "H264NvencCodec"}

SubtitleCodecs == {"MOVTextCodec", "SSA", "SubRip", "DVBSub", "DVDSub"}

NullCodecs == {"AudioNullCodec", "VideoNullCodec", "SubtitleNullCodec"}

CopyCodecs == {"AudioCopyCodec", "VideoCopyCodec", "SubtitleCopyCodec"}

MpegCodecs == {"Mpeg1Codec", "Mpeg2Codec"}

Codecs == AudioCodecs \cup VideoCodecs \cup SubtitleCodecs \cup NullCodecs \cup CopyCodecs

\* the class attribute codec_name (None in BaseCodec and the null codecs)
codec_name(c) ==
  CASE c = "VorbisCodec" -> Lit("vorbis")
    [] c = "AacCodec" -> Lit("aac")
    [] c = "FdkAacCodec" -> Lit("libfdk_aac")
    [] c = "Ac3Codec" -> Lit("ac3")
    [] c = "FlacCodec" -> Lit("flac")
    [] c = "DtsCodec" -> Lit("dts")
    [] c = "Mp3Codec" -> Lit("mp3")
    [] c = "Mp2Codec" -> Lit("mp2")
    [] c = "TheoraCodec" -> Lit("theora")
    [] c = "H264NvencCodec" -> Lit("nvenc_h264")
    [] c = "HEVCNvencCodec" -> Lit("nvenc_hevc")
    [] c = "H264Codec" -> Lit("h264")
    [] c = "DivxCodec" -> Lit("divx")
    [] c = "Vp8Codec" -> Lit("vp8")
    [] c = "H263Codec" -> Lit("h263")
    [] c = "FlvCodec" -> Lit("flv")
    [] c = "Ffv1Codec" -> Lit("ffv1")
    [] c = "Mpeg1Codec" -> Lit("mpeg1")
    [] c = "Mpeg2Codec" -> Lit("mpeg2")
    [] c = "MOVTextCodec" -> Lit("mov_text")
    [] c = "SSA" -> Lit("ass")
    [] c = "SubRip" -> Lit("subrip")
    [] c = "DVBSub" -> Lit("dvbsub")
    [] c = "DVDSub" -> Lit("dvdsub")
    [] c \in CopyCodecs -> Lit("copy")
    [] c \in NullCodecs -> None

\* the class attribute ffmpeg_codec_name
ffmpeg_codec_name(c) ==
  CASE c = "VorbisCodec" -> Lit("libvorbis")
    [] c = "Mp3Codec" -> Lit("libmp3lame")
    [] c = "TheoraCodec" -> Lit("libtheora")
    [] c = "H264Codec" -> Lit("libx264")
    [] c = "DivxCodec" -> Lit("mpeg4")
    [] c = "Vp8Codec" -> Lit("libvpx")
    [] c = "Mpeg1Codec" -> Lit("mpeg1video")
    [] c = "Mpeg2Codec" -> Lit("mpeg2video")
    [] c \in NullCodecs \cup CopyCodecs -> None
    [] OTHER -> codec_name(c)

\* the class attribute encoder_options
encoder_options(c) ==
  CASE c = "VorbisCodec" -> Update(AudioOptions, [k \in {"quality"} |-> "int"])
    [] c = "TheoraCodec" -> Update(VideoOptions, [k \in {"quality"} |-> "int"])
    [] c = "H264Codec" -> Update(VideoOptions, H264Options)
    [] c = "Ffv1Codec" -> Update(VideoOptions, Ffv1Options)
    [] c = "H264NvencCodec" -> Update(VideoOptions, H264NvencOptions)
    [] c = "HEVCNvencCodec" -> Update(VideoOptions, HEVCNvencOptions)
    [] c \in AudioCodecs -> AudioOptions
    [] c \in VideoCodecs -> VideoOptions
    [] c \in SubtitleCodecs -> SubtitleOptions
    [] OTHER -> BaseOptions

(***************************************************************************)
(* BaseCodec                                                               *)
(***************************************************************************)
\* a variant of BaseCodec.parse_options that only looks for the key 'codec'
BaseParseOptions_KeyOnly(c, o) ==
  IF "codec" \notin DOMAIN o THEN "ValueError" ELSE "none"

\* BaseCodec.parse_options: the exception it raises ("none": it returns)
BaseParseOptions(c, o) ==
  IF "codec" \notin DOMAIN o
     \/ ~(codec_name(c).t = "str" /\ StrEq(o["codec"], Cat(codec_name(c).v)))
  THEN "ValueError"
  ELSE "none"

\* a variant of BaseCodec.safe_options that copies the declared options as
\* they come, without the cast
SafeOptions_NoCast(c, opts) ==
  [k \in {j \in DOMAIN opts : j \in DOMAIN encoder_options(c)} |-> opts[k]]

\* BaseCodec.safe_options
SafeOptions(c, opts) ==
  LET declared == encoder_options(c)
      kept == {k \in DOMAIN opts : k \in DOMAIN declared /\ Coerce(declared[k], opts[k]).ok}
  IN  [k \in kept |-> Coerce(declared[k], opts[k]).val]

\* a result of a step that builds the argument list: the exception it raises
\* ("none": it returns), the list, and what it has logged
Built(list) == [exc |-> "none", list |-> list, diag |-> <<>>]

Raised(e) == [exc |-> e, list |-> <<>>, diag |-> <<>>]

\* the first position of the string s in the list, 0 if list.count(s) = 0
IndexOf(list, s) ==
  IF \E i \in 1..Len(list) : StrEq(list[i], s)
  THEN CHOOSE i \in 1..Len(list) :
         StrEq(list[i], s) /\ \A j \in 1..(i - 1) : ~StrEq(list[j], s)
  ELSE 0

\* the body shared by _extend_af and _extend_vf
ExtendFilter(list, flag, value) ==
  IF ~Truthy(value) THEN Built(list)
  ELSE LET i == IndexOf(list, flag)
       IN  IF i = 0 THEN Built(list \o <<Lit(flag), value>>)
           ELSE IF i + 1 > Len(list) THEN Raised("IndexError")
           ELSE Built([list EXCEPT ![i + 1] =
                         Lit(Cat((IF @.t = "int" THEN IntChars(@.v) ELSE @.v)
                                 \o <<",">> \o value.v))])

\* AudioCodec._extend_af
ExtendAf(list, value) == ExtendFilter(list, "-af", value)

\* VideoCodec._extend_vf
ExtendVf(list, value) == ExtendFilter(list, "-vf", value)

(***************************************************************************)
(* The hooks of the codec classes                                          *)
(***************************************************************************)
\* the flags a hook emits, in its order: <<key, flag, how>>; how = "str" appends
\* str(safe[key]), how = "raw" appends safe[key] as it is
VorbisFlags == << <<"quality", "-qscale:a", "raw">> >>

TheoraFlags == << <<"quality", "-qscale:v", "raw">> >>

H264Flags ==
  << <<"preset", "-preset", "raw">>, <<"quality", "-crf", "str">>,
     <<"profile", "-profile:v", "raw">>, <<"tune", "-tune", "raw">>,
     <<"level", "-level", "raw">>, <<"max_reference_frames", "-refs", "str">>,
     <<"max_rate", "-maxrate", "str">>,
     <<"max_frames_between_keyframes", "-g", "str">>, <<"qmin", "-qmin", "str">>,
     <<"qcomp", "-qcomp", "str">>, <<"keyint_min", "-keyint_min", "str">>,
     <<"subq", "-subq", "str">>, <<"b-pyramid", "-b-pyramid", "str">>,
     <<"trellis", "-trellis", "str">> >>

Ffv1Flags ==
  << <<"level", "-level", "str">>, <<"coder", "-coder", "str">>,
     <<"context", "-context", "str">>, <<"g", "-g", "str">>,
     <<"slices", "-slices", "str">>, <<"slicecrc", "-slicecrc", "str">> >>

\* if key in safe: optlist.extend([flag, value]), for every row of the table
RECURSIVE EmitFlags(_, _)
EmitFlags(sf, table) ==
  IF table = <<>> THEN <<>>
  ELSE LET row == Head(table)
       IN  (IF row[1] \in DOMAIN sf
            THEN <<Lit(row[2]), IF row[3] = "str" THEN ToStr(sf[row[1]]).val ELSE sf[row[1]]>>
            ELSE <<>>)
           \o EmitFlags(sf, Tail(table))

\* _codec_specific_parse_options (BaseCodec's returns safe; MpegCodec's
\* puts an aspect= fragment ahead of the geometry filter)
CodecSpecificParseOptions(c, sf) ==
  IF c \in MpegCodecs
  THEN LET w == sf["max_width"]
           h == sf["max_height"]
           filters == sf["aspect_filters"]
           tmp == <<"aspect=", IntText(w.v), ":", IntText(h.v)>>
       IN  IF Truthy(w) /\ Truthy(h)
           THEN IF filters.t = "none"
                THEN Put(sf, "aspect_filters", Lit(Cat(tmp)))
                ELSE Put(sf, "aspect_filters", Lit(Cat(tmp \o <<",">> \o filters.v)))
           ELSE sf
  ELSE sf

(***************************************************************************)
(* The hooks of H264NvencCodec and HEVCNvencCodec: one row per option, in  *)
(* the order of the source.  A row is                                      *)
(*   key      the option                                                   *)
(*   test     the condition of the if: "in" (value in valid), "ge"         *)
(*            (value >= lo), "between" (lo <= value <= hi), "open"         *)
(*            (lo < value < hi), "bool" (type(value) == bool), "truth"     *)
(*            (value in [False, True]), "isint" (type(value) == int)       *)
(*   goodflag the flag of the if branch, followed by the value rendered as *)
(*            render says: "raw" (as it is), "str" (str(value)), "strint"  *)
(*            (str(int(value)))                                            *)
(*   said     how the else branch renders the value in its message ("key": *)
(*            it names the key instead)                                    *)
(*   bad      what the else branch does after the message: "default"       *)
(*            (extends the list by badflag and dflt), "nothing", or the    *)
(*            exception it raises; a TypeError or a KeyError is raised     *)
(*            while the message is built, so that nothing is logged        *)
(*   enc      the encoder the message names                                *)
(***************************************************************************)
EnumRow(key, valid, bad, dflt, enc) ==
  [key |-> key, test |-> "in", valid |-> valid, lo |-> 0, hi |-> 0,
   goodflag |-> "-" \o key, render |-> "raw", said |-> "raw",
   bad |-> bad, badflag |-> "-" \o key, dflt |-> dflt, enc |-> enc]

NumRow(key, test, lo, hi, goodflag, said, bad, dflt, enc) ==
  [key |-> key, test |-> test, valid |-> {}, lo |-> lo, hi |-> hi,
   goodflag |-> goodflag, render |-> "str", said |-> said,
   bad |-> bad, badflag |-> "-" \o key, dflt |-> dflt, enc |-> enc]

BoolRow(key, test, dflt, enc) ==
  [key |-> key, test |-> test, valid |-> {}, lo |-> 0, hi |-> 0,
   goodflag |-> "-" \o key, render |-> "strint", said |-> "strint",
   bad |-> "default", badflag |-> "-" \o key, dflt |-> dflt, enc |-> enc]

NvencPresets == {"default", "slow", "medium", "fast", "hp", "hq", "bd", "ll", "llhq",
                 "llhp", "lossless", "losslesshp"}

NvencRateControls == {"constqp", "vbr", "cbr", "vbr_minqp", "ll_2pass_quality",
                      "ll_2pass_size", "vbr_2pass"}

H264NvencLevels == {"auto", "1", "1.0", "1b", "1.0b", "1.1", "1.2", "1.3", "2", "2.0",
                    "2.1", "2.2", "3", "3.0", "3.1", "3.2", "4", "4.0", "4.1", "4.2",
                    "5", "5.0", "5.1"}

HEVCNvencLevels == {"auto", "1", "1.0", "2", "2.0", "2.1", "3", "3.0", "3.1", "4", "4.0",
                    "4.1", "5", "5.0", "5.1", "5.2", "6", "6.0", "6.1", "6.2"}

\* H264NvencCodec._codec_specific_produce_ffmpeg_list; cq, qmin and qmax are
\* floats, their bounds are in hundredths
H264NvencRows ==
  << EnumRow("preset", NvencPresets, "default", "medium", "nvenc_h264"),
     EnumRow("profile", {"baseline", "main", "high", "high444p"}, "default", "main",
             "nvenc_h264"),
     EnumRow("level", H264NvencLevels, "default", "auto", "nvenc_h264"),
     EnumRow("rc", NvencRateControls, "default", "-1", "nvenc_h264"),
     NumRow("rc-lookahead", "ge", -1, 0, "-rc-lookahead", "str", "default", "-1",
            "nvenc_h264"),
     NumRow("surfaces", "ge", 0, 0, "-surfaces", "str", "default", "32", "nvenc_h264"),
     BoolRow("cbr", "bool", "0", "nvenc_h264"),
     BoolRow("2pass", "bool", "auto", "nvenc_h264"),
     NumRow("gpu", "ge", -2, 0, "-gpu", "str", "default", "any", "nvenc_h264"),
     NumRow("delay", "ge", 0, 0, "-delay", "str", "nothing", "", "nvenc_h264"),
     BoolRow("no-scenecut", "bool", "0", "nvenc_h264"),
     BoolRow("forced-idr", "bool", "auto", "nvenc_h264"),
     BoolRow("b_adapt", "bool", "1", "nvenc_h264"),
     BoolRow("spatial-aq", "bool", "0", "nvenc_h264"),
     BoolRow("temporal-aq", "bool", "0", "nvenc_h264"),
     BoolRow("zerolatency", "bool", "0", "nvenc_h264"),
     BoolRow("nonref_p", "bool", "0", "nvenc_h264"),
     BoolRow("strict_gop", "bool", "0", "nvenc_h264"),
     NumRow("aq-strength", "between", 1, 15, "-aq-strength", "str", "default", "8",
            "nvenc_h264"),
     NumRow("cq", "between", 0, 5100, "-cq", "str", "default", "0", "hevc_nvenc"),
     NumRow("qmin", "between", 0, 5100, "-qc", "str", "default", "0", "hevc_nvenc"),
     NumRow("qmax", "between", 0, 5100, "-qc", "str", "default", "51", "hevc_nvenc") >>

\* HEVCNvencCodec._codec_specific_produce_ffmpeg_list: line 837 calls
\* optlist.exntend (AttributeError), line 848 adds an int and a str
\* (TypeError), line 854 looks the message up in safe (KeyError)
HEVCNvencRows ==
  << EnumRow("preset", NvencPresets, "default", "medium", "hevc_nvenc"),
     EnumRow("profile", {"main", "main10", "rext"}, "default", "main", "hevc_nvenc"),
     EnumRow("level", HEVCNvencLevels, "default", "auto", "hevc_nvenc"),
     EnumRow("tier", {"main", "high"}, "AttributeError", "main", "hevc_nvenc"),
     EnumRow("rc", NvencRateControls, "default", "-1", "hevc_nvenc"),
     NumRow("rc-lookahead", "open", 0, 33, "-rc-lookahead", "raw", "TypeError", "-1",
            "hevc_nvenc"),
     NumRow("surfaces", "ge", 0, 0, "-surfaces", "raw", "KeyError", "32", "hevc_nvenc"),
     BoolRow("cbr", "truth", "0", "hevc_nvenc"),
     BoolRow("2pass", "truth", "auto", "hevc_nvenc"),
     NumRow("gpu", "isint", 0, 0, "-gpu", "key", "default", "any", "hevc_nvenc"),
     NumRow("delay", "ge", 0, 0, "-delay", "str", "nothing", "", "hevc_nvenc"),
     BoolRow("no-scenecut", "truth", "0", "hevc_nvenc"),
     BoolRow("forced-idr", "truth", "auto", "hevc_nvenc"),
     BoolRow("spatial_aq", "truth", "0", "hevc_nvenc"),
     BoolRow("temporal_aq", "truth", "0", "hevc_nvenc"),
     BoolRow("zerolatency", "truth", "0", "hevc_nvenc"),
     BoolRow("nonref_p", "truth", "0", "hevc_nvenc"),
     BoolRow("strict_gop", "truth", "0", "hevc_nvenc"),
     NumRow("aq-strength", "open", 0, 16, "-aq-strength", "str", "default", "8",
            "hevc_nvenc"),
     NumRow("cq", "between", 0, 5100, "-cq", "str", "default", "0", "hevc_nvenc"),
     NumRow("qmin", "between", 0, 5100, "-qc", "str", "default", "0", "hevc_nvenc"),
     NumRow("qmax", "between", 0, 5100, "-qc", "str", "default", "51", "hevc_nvenc") >>

\* the number a comparison takes a value for: True is 1, False is 0
Num(a) == IF a.t = "bool" THEN (IF a.v THEN 1 ELSE 0) ELSE a.v

\* the condition of a row's if
RowValid(row, a) ==
  CASE row.test = "in" -> Cat(a.v) \in row.valid
    [] row.test = "ge" -> Num(a) >= row.lo
    [] row.test = "between" -> row.lo <= Num(a) /\ Num(a) <= row.hi
    [] row.test = "open" -> row.lo < Num(a) /\ Num(a) < row.hi
    [] row.test = "bool" -> a.t = "bool"
    [] row.test = "truth" -> Num(a) \in {0, 1}
    [] row.test = "isint" -> a.t = "int"

\* the value as the argument list or the message holds it
Rendered(how, key, a) ==
  CASE how = "raw" -> a
    [] how = "str" -> ToStr(a).val
    [] how = "strint" -> ToStr(ToInt(a).val).val
    [] how = "key" -> Lit(key)

\* the text given to logger.error
RowMessage(row, a) ==
  Cat(Rendered(row.said, row.key, a).v
      \o <<" is not a valid ", row.key, " for ", row.enc, " encoder ...">>)

\* one if key in safe: ... of an nvenc hook, on the result acc of the rows before
NvencStep(sf, row, acc) ==
  IF row.key \notin DOMAIN sf THEN acc
  ELSE IF RowValid(row, sf[row.key])
  THEN [acc EXCEPT !.list = @ \o <<Lit(row.goodflag),
                                   Rendered(row.render, row.key, sf[row.key])>>]
  ELSE [exc |-> IF row.bad \in {"default", "nothing"} THEN "none" ELSE row.bad,
        list |-> IF row.bad = "default"
                 THEN acc.list \o <<Lit(row.badflag), Lit(row.dflt)>>
                 ELSE acc.list,
        diag |-> IF row.bad \in {"TypeError", "KeyError"} THEN acc.diag
                 ELSE acc.diag \o <<RowMessage(row, sf[row.key])>>]

RECURSIVE NvencWalk(_, _, _)
NvencWalk(sf, rows, acc) ==
  IF rows = <<>> \/ acc.exc # "none" THEN acc
  ELSE NvencWalk(sf, Tail(rows), NvencStep(sf, Head(rows), acc))

\* _codec_specific_produce_ffmpeg_list (BaseCodec's returns [])
CodecSpecificProduce(c, sf) ==
  CASE c = "VorbisCodec" -> Built(EmitFlags(sf, VorbisFlags))
    [] c = "AacCodec" -> Built(<<Lit("-strict"), Lit("experimental")>>)
    [] c = "TheoraCodec" -> Built(EmitFlags(sf, TheoraFlags))
    [] c = "H264Codec" -> Built(EmitFlags(sf, H264Flags))
    [] c = "Ffv1Codec" -> Built(EmitFlags(sf, Ffv1Flags))
    [] c = "H264NvencCodec" -> NvencWalk(sf, H264NvencRows, Built(<<>>))
    [] c = "HEVCNvencCodec" -> NvencWalk(sf, HEVCNvencRows, Built(<<>>))
    [] OTHER -> Built(<<>>)

(***************************************************************************)
(* AudioCodec.parse_options                                                *)
(***************************************************************************)
\* del safe[k] when safe[k] is outside [lo, hi] (k holds an int or a float)
DropOutside(sf, k, lo, hi) ==
  IF k \in DOMAIN sf /\ (sf[k].v < lo \/ sf[k].v > hi) THEN Del(sf, k) ELSE sf

\* a variant of lines 81-94 that drops channels with an out-of-range bitrate
AudioRange_DropsBoth(sf) ==
  LET s1 == DropOutside(DropOutside(sf, "channels", 1, 12), "samplerate", 1000, 50000)
  IN  IF "bitrate" \in DOMAIN s1 /\ (s1["bitrate"].v < 8 \/ s1["bitrate"].v > 512)
      THEN Del(Del(s1, "bitrate"), "channels")
      ELSE s1

\* lines 81-94: channels, bitrate, samplerate
AudioRange(sf) ==
  DropOutside(DropOutside(DropOutside(sf, "channels", 1, 12), "bitrate", 8, 512),
              "samplerate", 1000, 50000)

\* the flags of lines 99-104
AudioFlags(sf) ==
  (IF "channels" \in DOMAIN sf
   THEN <<Lit("-ac"), PyStr(IntChars(sf["channels"].v))>> ELSE <<>>)
  \o (IF "bitrate" \in DOMAIN sf
      THEN <<Lit("-ab"), Lit(Cat(IntChars(sf["bitrate"].v) \o <<"k">>))>> ELSE <<>>)
  \o (IF "samplerate" \in DOMAIN sf
      THEN <<Lit("-ar"), PyStr(IntChars(sf["samplerate"].v))>> ELSE <<>>)

\* optlist.extend(hook) when the hook has returned r
Extended(list, r) ==
  [exc |-> r.exc, list |-> IF r.exc = "none" THEN list \o r.list ELSE <<>>,
   diag |-> r.diag]

\* lines 110-111, after a step b that may have raised
AppendSpecific(c, sf, b) ==
  IF b.exc # "none" THEN b ELSE Extended(b.list, CodecSpecificProduce(c, sf))

\* lines 98-111, on the safe options the hook has returned; 'volume' is
\* declared by no audio codec, so line 106 never runs
AudioList(c, sf) ==
  AppendSpecific(c, sf,
    IF "filters" \in DOMAIN sf
    THEN ExtendAf(<<Lit("-acodec"), ffmpeg_codec_name(c)>> \o AudioFlags(sf), sf["filters"])
    ELSE Built(<<Lit("-acodec"), ffmpeg_codec_name(c)>> \o AudioFlags(sf)))

\* lines 96-111
AudioProduce(c, sf0) == AudioList(c, CodecSpecificParseOptions(c, sf0))

(***************************************************************************)
(* SubtitleCodec.parse_options                                             *)
(***************************************************************************)
\* lines 137-150: forced, default, language
SubtitleRange(sf) ==
  LET s1 == DropOutside(DropOutside(sf, "forced", 0, 1), "default", 0, 1)
  IN  IF "language" \in DOMAIN s1 /\ Len(Cat(s1["language"].v)) > 3
      THEN Del(s1, "language")
      ELSE s1

\* a variant of lines 152-157 that passes the language on
SubtitleProduce_WithLanguage(c, sf0) ==
  Built(<<Lit("-scodec"), ffmpeg_codec_name(c)>>
        \o (IF "language" \in DOMAIN sf0
            THEN <<Lit("-metadata:s"), Lit(Cat(<<"language=">> \o sf0["language"].v))>>
            ELSE <<>>))

\* lines 152-157
SubtitleProduce(c, sf0) ==
  AppendSpecific(c, CodecSpecificParseOptions(c, sf0),
                 Built(<<Lit("-scodec"), ffmpeg_codec_name(c)>>))

(***************************************************************************)
(* VideoCodec                                                              *)
(***************************************************************************)
SizingPolicies == {"Fit", "Fill", "Stretch", "Keep", "ShrinkToFit", "ShrinkToFill"}

\* VideoCodec._autorotate: filters.get(src_rotate)
Autorotate(src_rotate) ==
  CASE src_rotate = 90 -> Lit("transpose=1")
    [] src_rotate = 180 -> Lit("transpose=2,transpose=2")
    [] src_rotate = 270 -> Lit("transpose=2")
    [] OTHER -> None

\* a variant of VideoCodec._div_by_2 that returns d as it is
DivBy2_NoRounding(d) ==
  IF d.t \in {"none", "str"} THEN Fail ELSE Ok(d)

\* VideoCodec._div_by_2: None % 2 is a TypeError, and so is text % 2 for a
\* text without a conversion specifier
DivBy2(d) ==
  IF d.t \in {"none", "str"} THEN Fail
  ELSE Ok(PyInt(IF d.v % 2 # 0 THEN d.v + 1 ELSE d.v))

\* a / b on two ints: the floor of the quotient
FloorDiv(a, b) == IF b > 0 THEN a \div b ELSE (-a) \div (-b)

\* int(x * (float(num) / float(den))): the product cut towards zero.  The float
\* product equals the exact one on the sizes the requests of the model carry.
Scale(x, num, den) ==
  IF den > 0 THEN TruncDiv(x * num, den) ELSE TruncDiv(-(x * num), -den)

\* 'crop={0}:{1}:{2}:0'.format(max_width, max_height, d)
CropFilter(max_width, max_height, d) ==
  Lit(Cat(<<"crop=", IntText(max_width), ":", IntText(max_height), ":", IntText(d), ":0">>))

\* a result of _aspect_corrections: the triple it returns, the exception it
\* raises, and what it prints
Corrected(w, h, filters) ==
  [exc |-> "none", w |-> w, h |-> h, filters |-> filters, diag |-> <<>>]

\* the branches of Fit, and of ShrinkToFit when it scales (lines 243-250, 293-300)
FitBranches(sw, sh, max_width, max_height) ==
  IF FloorDiv(sh, sw) = max_height
  THEN Corrected(PyInt(max_width), PyInt(max_height), None)
  ELSE IF FloorDiv(sh, sw) < max_height
  THEN Corrected(PyInt(Scale(sw, max_height, sh)), PyInt(max_height), None)
  ELSE Corrected(PyInt(max_width), PyInt(Scale(sh, max_width, sw)), None)

\* the branches of Fill, and of ShrinkToFill when it scales (lines 258-269, 311-322)
FillBranches(sw, sh, max_width, max_height) ==
  IF FloorDiv(sh, sw) = max_height
  THEN Corrected(PyInt(max_width), PyInt(max_height), None)
  ELSE IF FloorDiv(sh, sw) < max_height
  THEN LET h0 == Scale(sh, max_width, sw)
           dh == FloorDiv(h0 - max_height, 2)
       IN  Corrected(PyInt(max_width), PyInt(h0), CropFilter(max_width, max_height, dh))
  ELSE LET w0 == Scale(sw, max_height, sh)
           dw == FloorDiv(w0 - max_width, 2)
       IN  Corrected(PyInt(w0), PyInt(max_height), CropFilter(max_width, max_height, dw))

\* a variant of the Stretch branch that returns the source size
StretchBranch_KeepsSource(sw, sh, max_width, max_height) ==
  Corrected(sw, sh, None)

\* the Stretch branch (lines 276-277)
StretchBranch(sw, sh, max_width, max_height) ==
  Corrected(max_width, max_height, None)

\* VideoCodec._aspect_corrections; max_width and max_height are None or
\* ints, sw and sh are None, ints or the texts a crop that did not parse has
\* left, sizing_policy is the text of the policy.  On texts sh / sw is a
\* TypeError, and a text is greater than every int
AspectCorrections(sw, sh, max_width, max_height, sizing_policy) ==
  IF ~Truthy(max_width) \/ ~Truthy(max_height) \/ ~Truthy(sw) \/ ~Truthy(sh)
  THEN Corrected(sw, sh, None)
  ELSE IF sizing_policy \notin SizingPolicies
  THEN [Corrected(sw, sh, None) EXCEPT
          !.diag = <<Cat(<<"invalid option ", sizing_policy>>)>>]
  ELSE IF (sw.t = "str" \/ sh.t = "str") /\ sizing_policy \in {"Fit", "Fill", "ShrinkToFit"}
  THEN [Corrected(None, None, None) EXCEPT !.exc = "TypeError"]
  ELSE IF (sw.t = "str" \/ sh.t = "str") /\ sizing_policy = "ShrinkToFill"
  THEN [Corrected(None, None, None) EXCEPT !.exc = "UnboundLocalError"]
  ELSE CASE sizing_policy = "Fit" -> FitBranches(sw.v, sh.v, max_width.v, max_height.v)
         [] sizing_policy = "Fill" -> FillBranches(sw.v, sh.v, max_width.v, max_height.v)
         [] sizing_policy = "Stretch" -> StretchBranch(sw, sh, max_width, max_height)
         [] sizing_policy = "Keep" -> Corrected(sw, sh, None)
         [] sizing_policy = "ShrinkToFit" ->
              IF sh.v > max_height.v \/ sw.v > max_width.v
              THEN FitBranches(sw.v, sh.v, max_width.v, max_height.v)
              ELSE Corrected(sw, sh, None)
         [] sizing_policy = "ShrinkToFill" ->
              IF sh.v < max_height.v \/ sw.v < max_width.v
              THEN FillBranches(sw.v, sh.v, max_width.v, max_height.v)
              \* line 324 reads factor, which this branch never assigned
              ELSE [Corrected(None, None, None) EXCEPT !.exc = "UnboundLocalError"]

\* lines 350-362: the maximum taken from safe, None when it is missing or
\* out of [lo, hi], raised by one when it is odd
\* a variant of lines 350-362 that adds 1 to every kept maximum
MaxDimension_AlwaysAdds(sf, k, lo, hi) ==
  IF k \notin DOMAIN sf THEN None
  ELSE IF sf[k].v < lo \/ sf[k].v > hi THEN None
  ELSE PyInt(sf[k].v + 1)

MaxDimension(sf, k, lo, hi) ==
  IF k \notin DOMAIN sf THEN None
  ELSE IF sf[k].v < lo \/ sf[k].v > hi THEN None
  ELSE IF sf[k].v % 2 # 0 THEN PyInt(sf[k].v + 1)
  ELSE sf[k]

\* lines 364-376: [ok, w, h]; ok = FALSE is the except branch.  Line 368
\* raises when there are not four parts, and crop_width and crop_height stay
\* None; with four parts it assigns the two texts, and when an int() of line
\* 369 raises, the texts are what crop_width and crop_height keep
ParseCrop(crop) ==
  LET parts == Split(crop.v, ":")
      cw == ParseInt(parts[1])
      ch == ParseInt(parts[2])
      InRange(n) == IF n < 16 \/ n > 3000 THEN None ELSE PyInt(n)
  IN  IF Len(parts) # 4
      THEN [ok |-> FALSE, w |-> None, h |-> None]
      ELSE IF ~cw.ok \/ ~ch.ok
      THEN [ok |-> FALSE, w |-> PyStr(parts[1]), h |-> PyStr(parts[2])]
      ELSE [ok |-> TRUE, w |-> InRange(cw.val), h |-> InRange(ch.val)]

\* lines 333-388 of VideoCodec.parse_options: the range rules, the maxima,
\* the crop, the source size and the sizing policy
VideoRange(sf0) ==
  LET s1 == DropOutside(DropOutside(DropOutside(sf0, "fps", 100, 12000),
                                    "bitrate", 10, 20000),
                        "bufsize", 1, 10000)
      w == MaxDimension(s1, "max_width", 16, 4000)
      h == MaxDimension(s1, "max_height", 16, 3000)
      crop == IF "crop" \in DOMAIN s1
              THEN ParseCrop(s1["crop"])
              ELSE [ok |-> TRUE, w |-> None, h |-> None]
      s2 == IF crop.ok THEN s1 ELSE Del(s1, "crop")
      useCrop == Truthy(crop.w) /\ Truthy(crop.h)
      policy == IF "sizing_policy" \in DOMAIN s2
                   /\ Cat(s2["sizing_policy"].v) \in SizingPolicies
                THEN Cat(s2["sizing_policy"].v)
                ELSE "Keep"
  IN  [safe |-> s2,
       w |-> w,
       h |-> h,
       sw |-> IF useCrop THEN crop.w ELSE Get(s2, "src_width", None),
       sh |-> IF useCrop THEN crop.h ELSE Get(s2, "src_height", None),
       sizing_policy |-> policy]

\* a variant of the test of lines 399-400 that takes any src_rotate for a
\* quarter turn
Rotated_Any(sf) ==
  /\ Truthy(Get(sf, "autorotate", None))
  /\ "src_rotate" \in DOMAIN sf

\* 'autorotate' is set and src_rotate is one of 90, 270 (lines 399-400)
Rotated(sf) ==
  /\ Truthy(Get(sf, "autorotate", None))
  /\ "src_rotate" \in DOMAIN sf
  /\ sf["src_rotate"].v \in {90, 270}

\* lines 394-407: w and h are even; safe records them, swapped when rotated
RecordSize(sf, w0, h0, filters) ==
  LET w == IF Rotated(sf) THEN h0 ELSE w0
      h == IF Rotated(sf) THEN w0 ELSE h0
      s1 == Put(Put(Put(sf, "max_width", w), "max_height", h), "aspect_filters", filters)
  IN  [exc |-> "none",
       safe |-> IF Truthy(w) /\ Truthy(h)
                THEN Put(s1, "aspect", Lit(Cat(<<IntText(w.v), ":", IntText(h.v)>>)))
                ELSE s1,
       w |-> w,
       h |-> h]

\* lines 391-407, on the w, h and filters line 390 has assigned: [exc, safe, w, h]
RoundAndRecord(sf, w, h, filters) ==
  IF ~DivBy2(w).ok \/ ~DivBy2(h).ok
  THEN [exc |-> "TypeError", safe |-> sf, w |-> w, h |-> h]
  ELSE RecordSize(sf, DivBy2(w).val, DivBy2(h).val, filters)

\* lines 390-407: [exc, safe, w, h]
VideoGeometry(v) ==
  LET r == AspectCorrections(v.sw, v.sh, v.w, v.h, v.sizing_policy)
  IN  IF r.exc # "none" THEN [exc |-> r.exc, safe |-> v.safe, w |-> None, h |-> None]
      ELSE RoundAndRecord(v.safe, r.w, r.h, r.filters)

\* lines 419-430
VideoFlags(c, sf, w, h) ==
  <<Lit("-vcodec"), ffmpeg_codec_name(c), Lit("-pix_fmt"), Get(sf, "pix_fmt", Lit("yuv420p"))>>
  \o (IF "fps" \in DOMAIN sf
      THEN <<Lit("-r"), PyStr(FloatChars(sf["fps"].v))>> ELSE <<>>)
  \o (IF "bitrate" \in DOMAIN sf
      THEN <<Lit("-vb"), Lit(Cat(FloatChars(sf["bitrate"].v) \o <<"M">>))>> ELSE <<>>)
  \o (IF "bufsize" \in DOMAIN sf
      THEN <<Lit("-bufsize"), Lit(Cat(IntChars(sf["bufsize"].v) \o <<"k">>))>> ELSE <<>>)
  \o (IF Truthy(w) /\ Truthy(h)
      THEN <<Lit("-s"), Lit(Cat(IntChars(w.v) \o <<"x">> \o IntChars(h.v)))>>
           \o (IF "aspect" \in DOMAIN sf
               THEN <<Lit("-aspect"), Lit(Cat(IntChars(w.v) \o <<":">> \o IntChars(h.v)))>>
               ELSE <<>>)
      ELSE <<>>)

\* lines 432-433
WithCrop(sf, list) ==
  IF Truthy(Get(sf, "crop", None))
  THEN ExtendVf(list, Lit(Cat(<<"crop=">> \o sf["crop"].v)))
  ELSE Built(list)

\* lines 435-436: self._extend_vf(filters) is called without the list, which
\* is a TypeError
WithAspectFilters(sf, b) ==
  IF b.exc # "none" THEN b
  ELSE IF Truthy(sf["aspect_filters"]) THEN Raised("TypeError")
  ELSE b

\* lines 438-440
WithAutorotate(sf, b) ==
  IF b.exc # "none" THEN b
  ELSE IF Truthy(Get(sf, "autorotate", PyBool(FALSE))) /\ "src_rotate" \in DOMAIN sf
  THEN ExtendVf(b.list, Autorotate(sf["src_rotate"].v))
  ELSE b

\* lines 442-443
WithFilters(sf, b) ==
  IF b.exc # "none" THEN b
  ELSE IF "filters" \in DOMAIN sf THEN ExtendVf(b.list, sf["filters"])
  ELSE b

\* lines 413-446, on the safe options the hook has returned
VideoList(c, sf, w, h) ==
  AppendSpecific(c, sf,
    WithFilters(sf, WithAutorotate(sf, WithAspectFilters(sf,
      WithCrop(sf, VideoFlags(c, sf, w, h))))))

\* lines 409-446: the argument list, from safe and the resolved w and h
VideoProduce(c, sf0, w, h) == VideoList(c, CodecSpecificParseOptions(c, sf0), w, h)

(***************************************************************************)
(* The pseudo-codecs: parse_options overridden, nothing is checked         *)
(***************************************************************************)
PseudoParseOptions_SubtitleAsVideo(c) ==
  CASE c = "AudioNullCodec" -> <<Lit("-an")>>
    [] c = "VideoNullCodec" -> <<Lit("-vn")>>
    [] c = "SubtitleNullCodec" -> <<Lit("-vn")>>
    [] c = "AudioCopyCodec" -> <<Lit("-acodec"), Lit("copy")>>
    [] c = "VideoCopyCodec" -> <<Lit("-vcodec"), Lit("copy")>>
    [] c = "SubtitleCopyCodec" -> <<Lit("-vcodec"), Lit("copy")>>

PseudoParseOptions(c) ==
  CASE c = "AudioNullCodec" -> <<Lit("-an")>>
    [] c = "VideoNullCodec" -> <<Lit("-vn")>>
    [] c = "SubtitleNullCodec" -> <<Lit("-sn")>>
    [] c = "AudioCopyCodec" -> <<Lit("-acodec"), Lit("copy")>>
    [] c = "VideoCopyCodec" -> <<Lit("-vcodec"), Lit("copy")>>
    [] c = "SubtitleCopyCodec" -> <<Lit("-scodec"), Lit("copy")>>

(***************************************************************************)
(* The requests of the model.  A request is a dict; Absent marks an option *)
(* the request does not carry.                                             *)
(***************************************************************************)
Absent == [t |-> "absent", v |-> 0]

\* the dict of the pairs <<key, value>> whose value is not Absent
Request(pairs) ==
  LET present == {q \in pairs : q[2] # Absent}
  IN  [k \in {q[1] : q \in present} |-> (CHOOSE q \in present : q[1] = k)[2]]

SrcWidths == {Absent, PyInt(0), PyInt(2), PyInt(641)} \cup {PyInt(640 * k) : k \in 1..MaxSrcK}

SrcHeights == {Absent, PyInt(17)} \cup {PyInt(360 * k) : k \in 1..MaxSrcK}

MaxWidths == {Absent, PyInt(8), PyInt(641)} \cup {PyInt(640 * k) : k \in 1..MaxMaxK}

MaxHeights == {Absent, PyInt(16)} \cup {PyInt(360 * k) : k \in 1..MaxMaxK}

PolicyValues == {Absent, Lit("Bogus")} \cup {Lit(p) : p \in SizingPolicies}

\* requests about the geometry: every source size, maximum and sizing policy
GeometryCalls ==
  {<<"DivxCodec",
     Request({<<"codec", Lit("divx")>>, <<"src_width", sw>>, <<"src_height", sh>>,
              <<"max_width", mw>>, <<"max_height", mh>>, <<"sizing_policy", p>>})>> :
     sw \in SrcWidths, sh \in SrcHeights, mw \in MaxWidths, mh \in MaxHeights,
     p \in PolicyValues}

\* requests about the rotation
RotateCalls ==
  {<<"DivxCodec",
     Request({<<"codec", Lit("divx")>>, <<"src_width", PyInt(1920)>>, <<"src_height", sh>>,
              <<"max_width", mw>>, <<"max_height", PyInt(360)>>,
              <<"sizing_policy", Lit(p)>>, <<"autorotate", ar>>, <<"src_rotate", rot>>})>> :
     sh \in {Absent, PyInt(1080)}, mw \in {Absent, PyInt(641)},
     p \in {"Fit", "Stretch", "Keep"},
     ar \in {Absent, PyBool(TRUE), PyBool(FALSE), PyInt(1), PyStr(<<"n", "o">>)},
     rot \in {Absent, PyInt(0), PyInt(90), PyInt(180), PyInt(270),
              PyStr(<<"2", "7", "0">>), PyStr(<<"u", "p">>)}}

CropValues ==
  {Absent,
   PyStr(<<"6", "4", "0", ":", "3", "6", "0", ":", "0", ":", "0">>),
   PyStr(<<"8", ":", "3", "6", "0", ":", "0", ":", "0">>),
   PyStr(<<"6", "4", ":", "3", "6">>),
   PyStr(<<"a", ":", "3", "6", ":", "0", ":", "0">>),
   PyStr(<<>>)}

\* requests about the filter chain
FilterCalls ==
  {<<c,
     Request({<<"codec", codec_name(c)>>, <<"src_width", PyInt(1920)>>,
              <<"src_height", PyInt(1080)>>, <<"max_width", PyInt(640)>>,
              <<"max_height", PyInt(640)>>, <<"sizing_policy", Lit(p)>>,
              <<"crop", crop>>, <<"autorotate", ar>>, <<"src_rotate", rot>>,
              <<"filters", f>>, <<"pix_fmt", pf>>, <<"fps", fps>>})>> :
     c \in {"DivxCodec", "Mpeg1Codec"}, p \in {"Keep", "Fill"}, crop \in CropValues,
     ar \in {Absent, PyBool(TRUE)}, rot \in {PyInt(90), PyInt(180), PyInt(7)},
     f \in {Absent, Lit("hflip"), Lit("")}, pf \in {Absent, Lit("-vf")},
     fps \in {Absent, PyInt(25)}}

\* requests about the options of the nvenc codecs
NvencCalls ==
  {<<c,
     Request({<<"codec", codec_name(c)>>, <<"src_width", PyInt(640)>>,
              <<"src_height", PyInt(360)>>, <<"preset", preset>>, <<"tier", tier>>,
              <<"rc-lookahead", la>>, <<"surfaces", su>>, <<"aq-strength", aq>>,
              <<"cq", cq>>, <<"cbr", cbr>>, <<"delay", delay>>, <<"gpu", PyInt(0)>>})>> :
     c \in {"H264NvencCodec", "HEVCNvencCodec"},
     preset \in {Absent, Lit("fast"), Lit("bogus")},
     tier \in {Absent, Lit("high"), Lit("low")},
     la \in {Absent, PyInt(10), PyInt(40)}, su \in {Absent, PyInt(-1)},
     aq \in {Absent, PyInt(8), PyInt(0)}, cq \in {Absent, PyFloat(6000)},
     cbr \in {Absent, PyInt(1)}, delay \in {Absent, PyInt(-1)}}

\* requests about the range rules of the audio options
AudioCalls ==
  {<<c,
     Request({<<"codec", codec_name(c)>>, <<"channels", ch>>, <<"bitrate", br>>,
              <<"samplerate", sr>>, <<"filters", f>>})>> :
     c \in {"VorbisCodec", "AacCodec", "Mp3Codec"},
     ch \in {Absent, PyInt(0), PyInt(1), PyInt(2), PyInt(12), PyInt(13),
             PyStr(<<"2">>), PyStr(<<"t", "w", "o">>)},
     br \in {Absent, PyInt(7), PyInt(8), PyInt(512), PyInt(513), PyInt(999),
             PyFloat(12850)},
     sr \in {Absent, PyInt(999), PyInt(1000), PyInt(50000), PyInt(50001), None},
     f \in {Absent, Lit("volume=2")}}

\* requests about the options of the subtitle codecs
SubtitleCalls ==
  {<<c,
     Request({<<"codec", codec_name(c)>>, <<"language", l>>, <<"forced", fo>>,
              <<"default", de>>})>> :
     c \in SubtitleCodecs,
     l \in {Absent, Lit("eng"), Lit("english"), PyInt(5)},
     fo \in {Absent, PyInt(0), PyInt(1), PyInt(2), PyInt(-1)},
     de \in {Absent, PyInt(1), PyInt(7), PyStr(<<"x">>)}}

\* direct calls of _aspect_corrections: <<sw, sh, max_width, max_height, policy>>
DirectCalls ==
  {<<sw, sh, mw, mh, p>> :
     sw \in {None, PyInt(0), PyInt(320), PyInt(1920)},
     sh \in {None, PyInt(200), PyInt(1080)},
     mw \in {None, PyInt(640), PyInt(8)},
     mh \in {None, PyInt(360)},
     p \in SizingPolicies \cup {"Bogus", "fit", ""}}

\* option sets of every kind of value: good, out of range, of another type,
\* not coercible, undeclared
OptionSets ==
  {EmptyDict,
   Request({<<"channels", PyInt(2)>>, <<"bitrate", PyInt(999)>>,
            <<"samplerate", PyStr(<<"4", "4", "1", "0", "0">>)>>,
            <<"filters", Lit("volume=2")>>, <<"quality", PyInt(5)>>,
            <<"volume", PyInt(3)>>}),
   Request({<<"channels", PyStr(<<"t", "w", "o">>)>>, <<"bitrate", PyFloat(12850)>>,
            <<"samplerate", None>>, <<"filters", PyInt(7)>>,
            <<"quality", PyStr(<<"5", ".", "5">>)>>}),
   Request({<<"language", Lit("english")>>, <<"forced", PyInt(2)>>,
            <<"default", PyStr(<<"1">>)>>, <<"bogus", PyBool(TRUE)>>}),
   Request({<<"language", Lit("eng")>>, <<"forced", PyBool(TRUE)>>, <<"default", None>>}),
   Request({<<"fps", PyStr(<<"2", "3", ".", "9", "8">>)>>, <<"bitrate", PyFloat(250)>>,
            <<"bufsize", PyInt(20000)>>, <<"src_width", PyStr(<<"1", "9", "2", "0">>)>>,
            <<"src_height", PyFloat(108070)>>, <<"max_width", PyBool(TRUE)>>,
            <<"max_height", PyInt(481)>>, <<"sizing_policy", PyInt(3)>>,
            <<"preset", Lit("fast")>>, <<"quality", PyInt(23)>>, <<"level", PyInt(3)>>,
            <<"qcomp", PyStr(<<"x">>)>>}),
   Request({<<"fps", PyStr(<<"f", "a", "s", "t">>)>>, <<"bitrate", PyInt(900)>>,
            <<"bufsize", None>>, <<"src_width", PyInt(320)>>, <<"src_height", PyInt(200)>>,
            <<"max_width", PyStr(<<"6", "4", "0">>)>>, <<"max_height", PyFloat(48000)>>,
            <<"sizing_policy", Lit("ShrinkToFit")>>, <<"autorotate", None>>,
            <<"src_rotate", PyStr(<<"9", "0">>)>>, <<"crop", PyInt(5)>>})}

\* what a request can carry under 'codec': nothing, the codec's own name,
\* another codec's name, a value that is no string
CodecValues(c) == {Absent, codec_name(c), Lit("mp3"), Lit("h264"), Lit("copy"), PyInt(5)}

\* every codec with every option set and every 'codec' value
GeneralCalls ==
  UNION {{<<c, IF cv = Absent THEN Del(o, "codec") ELSE Put(o, "codec", cv)>> :
            o \in OptionSets, cv \in CodecValues(c)} : c \in Codecs}

Calls == GeometryCalls \cup RotateCalls \cup FilterCalls \cup NvencCalls \cup AudioCalls \cup SubtitleCalls
         \cup GeneralCalls

(***************************************************************************)
(* The state machine: one call of parse_options at a time, followed step   *)
(* by step.  pc is the position in parse_options:                          *)
(*   idle      no call                                                     *)
(*   called    parse_options entered                                       *)
(*   checked   BaseCodec.parse_options returned                            *)
(*   filtered  safe_options returned                                       *)
(*   validated the range rules are applied (video: up to line 388)         *)
(*   corrected video only: _aspect_corrections has returned (line 390)     *)
(*   resolved  video only: the geometry is resolved (line 407)             *)
(*   done      parse_options returned (outcome "ok") or raised (outcome is *)
(*             the exception)                                              *)
(*   returned  _aspect_corrections, called on its own, returned or raised  *)
(***************************************************************************)
NoLocals ==
  [w |-> None, h |-> None, filters |-> None, sw |-> None, sh |-> None,
   sizing_policy |-> "", max_width |-> None, max_height |-> None, diag |-> <<>>]

Init ==
  /\ pc = "idle"
  /\ codec = "BaseCodec"
  /\ opt = EmptyDict
  /\ safe = EmptyDict
  /\ loc = NoLocals
  /\ optlist = <<>>
  /\ outcome = "none"
  /\ aac_experimental_enable = <<Lit("-strict"), Lit("experimental")>>
  /\ served = FALSE

\* the caller calls parse_options(opt) on a codec
Call ==
  /\ pc = "idle"
  /\ \E call \in Calls :
       /\ codec' = call[1]
       /\ opt' = call[2]
  /\ pc' = "called"
  /\ UNCHANGED <<safe, loc, optlist, outcome, aac_experimental_enable, served>>

\* parse_options of a null or copy codec
PseudoCall ==
  /\ pc = "called"
  /\ codec \in NullCodecs \cup CopyCodecs
  /\ optlist' = PseudoParseOptions(codec)
  /\ outcome' = "ok"
  /\ pc' = "done"
  /\ UNCHANGED <<codec, opt, safe, loc, aac_experimental_enable, served>>

\* super().parse_options(opt), the first statement of the three parse_options
CheckCodec ==
  /\ pc = "called"
  /\ codec \notin NullCodecs \cup CopyCodecs
  /\ IF BaseParseOptions(codec, opt) # "none"
     THEN pc' = "done" /\ outcome' = BaseParseOptions(codec, opt)
     ELSE pc' = "checked" /\ outcome' = outcome
  /\ UNCHANGED <<codec, opt, safe, loc, optlist, aac_experimental_enable, served>>

\* safe = self.safe_options(opt)
Filter ==
  /\ pc = "checked"
  /\ safe' = SafeOptions(codec, opt)
  /\ pc' = "filtered"
  /\ UNCHANGED <<codec, opt, loc, optlist, outcome, aac_experimental_enable, served>>

\* lines 81-94
AudioValidate ==
  /\ pc = "filtered"
  /\ codec \in AudioCodecs
  /\ safe' = AudioRange(safe)
  /\ pc' = "validated"
  /\ UNCHANGED <<codec, opt, loc, optlist, outcome, aac_experimental_enable, served>>

\* lines 137-150
SubtitleValidate ==
  /\ pc = "filtered"
  /\ codec \in SubtitleCodecs
  /\ safe' = SubtitleRange(safe)
  /\ pc' = "validated"
  /\ UNCHANGED <<codec, opt, loc, optlist, outcome, aac_experimental_enable, served>>

\* the locals of VideoCodec.parse_options after line 388; max_width and
\* max_height are the maxima line 390 passes on, which w and h hold until then
LocalsAt388(v) ==
  [w |-> v.w, h |-> v.h, filters |-> None, sw |-> v.sw, sh |-> v.sh,
   sizing_policy |-> v.sizing_policy, max_width |-> v.w, max_height |-> v.h,
   diag |-> <<>>]

\* lines 333-388
VideoValidate ==
  /\ pc = "filtered"
  /\ codec \in VideoCodecs
  /\ safe' = VideoRange(safe).safe
  /\ loc' = LocalsAt388(VideoRange(safe))
  /\ pc' = "validated"
  /\ UNCHANGED <<codec, opt, optlist, outcome, aac_experimental_enable, served>>

\* the locals after w, h, filters = self._aspect_corrections(...) has returned r
LocalsAt390(l, r) ==
  [l EXCEPT !.w = r.w, !.h = r.h, !.filters = r.filters, !.diag = r.diag]

\* line 390
CorrectAspect ==
  /\ pc = "validated"
  /\ codec \in VideoCodecs
  /\ LET r == AspectCorrections(loc.sw, loc.sh, loc.w, loc.h, loc.sizing_policy)
     IN  IF r.exc # "none"
         THEN pc' = "done" /\ outcome' = r.exc /\ loc' = loc
         ELSE pc' = "corrected" /\ outcome' = outcome /\ loc' = LocalsAt390(loc, r)
  /\ UNCHANGED <<codec, opt, safe, optlist, aac_experimental_enable, served>>

\* lines 391-407
ResolveGeometry ==
  /\ pc = "corrected"
  /\ LET g == RoundAndRecord(safe, loc.w, loc.h, loc.filters)
     IN  /\ safe' = g.safe
         /\ loc' = [loc EXCEPT !.w = g.w, !.h = g.h]
         /\ IF g.exc # "none"
            THEN pc' = "done" /\ outcome' = g.exc
            ELSE pc' = "resolved" /\ outcome' = outcome
  /\ UNCHANGED <<codec, opt, optlist, aac_experimental_enable, served>>

\* a variant of optlist.extend(fragment) that extends fragment with optlist
ExtendArgument_Aliased(list, fragment) == fragment \o list

\* optlist.extend(fragment) as the list fragment sees it: extend reads the
\* elements of its argument and leaves it as it is (AacCodec's hook returns
\* the class attribute itself, line 541)
ExtendArgument(list, fragment) == fragment

\* the rest of parse_options: the hook has returned sf, the argument list is
\* built and returned, or an exception is raised
Finish(sf, b) ==
  /\ safe' = sf
  /\ optlist' = b.list
  /\ outcome' = IF b.exc # "none" THEN b.exc ELSE "ok"
  /\ pc' = "done"
  /\ loc' = [loc EXCEPT !.diag = @ \o b.diag]
  /\ aac_experimental_enable' =
       IF codec = "AacCodec" /\ b.exc = "none"
       THEN ExtendArgument(SubSeq(b.list, 1, Len(b.list) - Len(aac_experimental_enable)),
                           aac_experimental_enable)
       ELSE aac_experimental_enable
  /\ UNCHANGED <<codec, opt, served>>

\* lines 96-111
AudioEmit ==
  /\ pc = "validated"
  /\ codec \in AudioCodecs
  /\ Finish(CodecSpecificParseOptions(codec, safe), AudioProduce(codec, safe))

\* lines 152-157
SubtitleEmit ==
  /\ pc = "validated"
  /\ codec \in SubtitleCodecs
  /\ Finish(CodecSpecificParseOptions(codec, safe), SubtitleProduce(codec, safe))

\* lines 409-446
VideoEmit ==
  /\ pc = "resolved"
  /\ Finish(CodecSpecificParseOptions(codec, safe), VideoProduce(codec, safe, loc.w, loc.h))

\* the caller calls _aspect_corrections on a video codec; loc holds the
\* arguments and what is returned
DirectCorrect ==
  /\ pc = "idle"
  /\ \E a \in DirectCalls :
       /\ loc' = LocalsAt390([NoLocals EXCEPT !.sw = a[1], !.sh = a[2], !.max_width = a[3],
                                             !.max_height = a[4], !.sizing_policy = a[5]],
                             AspectCorrections(a[1], a[2], a[3], a[4], a[5]))
       /\ outcome' = IF AspectCorrections(a[1], a[2], a[3], a[4], a[5]).exc # "none"
                     THEN AspectCorrections(a[1], a[2], a[3], a[4], a[5]).exc
                     ELSE "ok"
  /\ codec' = "VideoCodec"
  /\ pc' = "returned"
  /\ UNCHANGED <<opt, safe, optlist, aac_experimental_enable, served>>

\* the caller has the result or the exception; nothing of the call is kept
Return ==
  /\ pc \in {"done", "returned"}
  /\ pc' = "idle"
  /\ codec' = "BaseCodec"
  /\ opt' = EmptyDict
  /\ safe' = EmptyDict
  /\ loc' = NoLocals
  /\ optlist' = <<>>
  /\ outcome' = "none"
  /\ served' = TRUE
  /\ UNCHANGED aac_experimental_enable

Next ==
  \/ Call
  \/ PseudoCall
  \/ CheckCodec
  \/ Filter
  \/ AudioValidate
  \/ SubtitleValidate
  \/ VideoValidate
  \/ CorrectAspect
  \/ ResolveGeometry
  \/ AudioEmit
  \/ SubtitleEmit
  \/ VideoEmit
  \/ DirectCorrect
  \/ Return

Spec == Init /\ [][Next]_vars

(***************************************************************************)
(* Properties                                                              *)
(***************************************************************************)
\* the request names the codec it is given to
Matching ==
  /\ "codec" \in DOMAIN opt
  /\ codec_name(codec).t = "str"
  /\ StrEq(opt["codec"], Cat(codec_name(codec).v))

RealCodec == codec \in AudioCodecs \cup VideoCodecs \cup SubtitleCodecs

\* the argument that follows the first flag in the list (None: no such flag)
ArgAfter(list, flag) ==
  IF IndexOf(list, flag) = 0 \/ IndexOf(list, flag) = Len(list) THEN None
  ELSE list[IndexOf(list, flag) + 1]

CountOf(list, flag) == Cardinality({i \in 1..Len(list) : StrEq(list[i], flag)})

\* C1: a request that names its codec never fails, whatever else it holds:
\* every finished call of an audio, video or subtitle codec on a matching
\* request has returned an argument list.
C1_MatchingRequestNeverFails ==
  (pc = "done" /\ RealCodec /\ Matching) => outcome = "ok"

\* C2: on a request whose 'codec' is absent or differs, a codec other than
\* null and copy fails with the invalid-codec error (ValueError), and it does
\* so before anything is filtered, validated or emitted: no later position of
\* parse_options is reached, safe and the locals are untouched, and there is
\* no argument list.
C2_InvalidCodecFirst ==
  (RealCodec /\ ~Matching) =>
     /\ pc \in {"called", "done"}
     /\ safe = EmptyDict
     /\ loc = NoLocals
     /\ optlist = <<>>
     /\ pc = "done" => outcome = "ValueError"

C2_Witness ==
  /\ pc = "done"
  /\ outcome = "ValueError"
  /\ "codec" \in DOMAIN opt
  /\ "channels" \in DOMAIN opt
  /\ codec \in AudioCodecs

\* s holds only keys of o that c declares, each with the value of o cast to
\* the declared type, and misses a key of o only if c does not declare it or
\* its cast fails
SafeTyped(c, o, s) ==
  /\ \A k \in DOMAIN s :
       /\ k \in DOMAIN o
       /\ k \in DOMAIN encoder_options(c)
       /\ s[k].t = encoder_options(c)[k]
       /\ Coerce(encoder_options(c)[k], o[k]).ok
       /\ s[k] = Coerce(encoder_options(c)[k], o[k]).val
  /\ \A k \in (DOMAIN o) \ (DOMAIN s) :
       \/ k \notin DOMAIN encoder_options(c)
       \/ ~Coerce(encoder_options(c)[k], o[k]).ok

\* C3: what safe_options returns holds only declared keys of the request,
\* every value is of the declared type and is the coerced value of the
\* request, a key of the request is missing only if it is undeclared or its
\* coercion fails, and safe_options does not fail; this holds of the codec
\* that was called and of every other codec given the same request.
C3_SafeOptionsTyped ==
  pc = "filtered" =>
     /\ outcome = "none"
     /\ SafeTyped(codec, opt, safe)
     /\ \A c \in Codecs : SafeTyped(c, opt, SafeOptions(c, opt))

C3_Witness ==
  /\ pc = "filtered"
  /\ \E k \in DOMAIN opt : k \notin DOMAIN encoder_options(codec)
  /\ \E k \in DOMAIN opt : k \in DOMAIN encoder_options(codec) /\ k \notin DOMAIN safe
  /\ \E k \in DOMAIN safe : safe[k].t # opt[k].t

AllFour ==
  /\ loc.sw # None
  /\ loc.sh # None
  /\ loc.max_width # None
  /\ loc.max_height # None

\* ... and none of them is zero
AllFourNonZero ==
  /\ loc.sw.t = "int" /\ loc.sh.t = "int"
  /\ Truthy(loc.sw) /\ Truthy(loc.sh) /\ Truthy(loc.max_width) /\ Truthy(loc.max_height)

\* the request rotates by a quarter turn
QuarterTurn ==
  /\ Truthy(Get(safe, "autorotate", None))
  /\ "src_rotate" \in DOMAIN safe
  /\ safe["src_rotate"].v \in {90, 270}

Abs(n) == IF n < 0 THEN -n ELSE n

Larger(a, b) == IF a > b THEN a ELSE b

\* C5: under Fit or ShrinkToFit with all four sizes, the resolved size stays
\* within the maxima and keeps the source ratio up to the pixel(s) of rounding.
C5_FitWithinMaxima ==
  (pc = "resolved" /\ loc.sizing_policy \in {"Fit", "ShrinkToFit"} /\ AllFourNonZero
   /\ ~QuarterTurn) =>
     /\ loc.w.v <= loc.max_width.v
     /\ loc.h.v <= loc.max_height.v
     /\ Abs(loc.w.v * loc.sh.v - loc.h.v * loc.sw.v) <= 2 * Larger(loc.sw.v, loc.sh.v)

\* the fragments a video request contributes to -vf, in the order of lines
\* 432-443: the crop, the filter of the geometry, the rotation, 'filters'
Text(a) == IF a.t = "str" THEN Cat(a.v) ELSE ""

VfFragments ==
  <<IF Truthy(Get(safe, "crop", None)) THEN Cat(<<"crop=", Text(safe["crop"])>>) ELSE "",
    Text(Get(safe, "aspect_filters", None)),
    IF Truthy(Get(safe, "autorotate", None)) /\ "src_rotate" \in DOMAIN safe
    THEN Text(Autorotate(safe["src_rotate"].v)) ELSE "",
    Text(Get(safe, "filters", None))>>

NonEmpty(s) == s # ""

RECURSIVE Join(_, _)
Join(texts, sep) ==
  IF texts = <<>> THEN ""
  ELSE IF Len(texts) = 1 THEN texts[1]
  ELSE texts[1] \o sep \o Join(Tail(texts), sep)

\* the source ratio differs from the ratio of the maxima
AspectDiffers == loc.sw.v * loc.max_height.v # loc.sh.v * loc.max_width.v

\* half of the excess of the scaled size over the maximum, in the cropped axis
FillOffset ==
  IF loc.w.v > loc.max_width.v THEN (loc.w.v - loc.max_width.v) \div 2
  ELSE (loc.h.v - loc.max_height.v) \div 2

\* C6: under Fill with all four sizes and a differing aspect, the scaled size
\* covers both maxima, the filter is crop=<max_w>:<max_h>:<offset>:0 with the
\* offset half of the excess, and the call returns a list whose -vf holds it.
C6_FillCoversAndCrops ==
  (loc.sizing_policy = "Fill" /\ AllFourNonZero /\ AspectDiffers) =>
     /\ pc = "corrected" =>
          /\ loc.w.v >= loc.max_width.v
          /\ loc.h.v >= loc.max_height.v
          /\ loc.filters = CropFilter(loc.max_width.v, loc.max_height.v, FillOffset)
     /\ pc = "done" =>
          /\ outcome = "ok"
          /\ CountOf(optlist, "-vf") = 1
          /\ \E i \in 1..Len(VfFragments) : VfFragments[i] = Text(loc.filters)
          /\ Text(ArgAfter(optlist, "-vf")) = Join(SelectSeq(VfFragments, NonEmpty), ",")

\* C7: ShrinkToFit with the source within both maxima, and ShrinkToFill with
\* the source at least as large as both, return the source size unchanged and
\* no filter, and do not fail.
C7_ShrinkKeepsSource ==
  (AllFourNonZero
   /\ \/ /\ loc.sizing_policy = "ShrinkToFit"
         /\ loc.sw.v <= loc.max_width.v
         /\ loc.sh.v <= loc.max_height.v
      \/ /\ loc.sizing_policy = "ShrinkToFill"
         /\ loc.sw.v >= loc.max_width.v
         /\ loc.sh.v >= loc.max_height.v) =>
     /\ pc = "corrected" => loc.w = loc.sw /\ loc.h = loc.sh /\ loc.filters = None
     /\ pc = "done" => outcome # "UnboundLocalError"

Unrotated == VideoGeometry(VideoRange(SafeOptions(codec, Del(opt, "autorotate"))))

SizeText(w, h, sep) == Cat(IntChars(w.v) \o <<sep>> \o IntChars(h.v))

\* the list holds the text as one of its arguments
Holds(list, text) == \E i \in 1..Len(list) : StrEq(list[i], text)

\* C9: with autorotate set and src_rotate 90 or 270 the resolved width and
\* height are the height and width of the same request without autorotate,
\* and the size and aspect arguments carry the swapped values, not the
\* unswapped ones; with any other src_rotate the size is that of the request
\* without autorotate.
C9_RotationSwaps ==
  /\ pc = "resolved" =>
       /\ Unrotated.exc = "none"
       /\ IF QuarterTurn
          THEN loc.w = Unrotated.h /\ loc.h = Unrotated.w
          ELSE loc.w = Unrotated.w /\ loc.h = Unrotated.h
  /\ (pc = "done" /\ codec \in VideoCodecs /\ outcome = "ok"
      /\ Truthy(loc.w) /\ Truthy(loc.h)) =>
       LET w == IF QuarterTurn THEN Unrotated.h ELSE Unrotated.w
           h == IF QuarterTurn THEN Unrotated.w ELSE Unrotated.h
       IN  /\ Holds(optlist, SizeText(w, h, "x"))
           /\ Text(ArgAfter(optlist, "-aspect")) = SizeText(w, h, ":")
           /\ w # h => ~Holds(optlist, SizeText(h, w, "x"))
           /\ CountOf(optlist, "-s") = 1 =>
                Text(ArgAfter(optlist, "-s")) = SizeText(w, h, "x")

C9_Witness ==
  /\ pc = "done"
  /\ outcome = "ok"
  /\ QuarterTurn
  /\ loc.w.t = "int"
  /\ loc.w # loc.h
  /\ loc.w = Unrotated.h
  /\ CountOf(optlist, "-s") = 1

\* C10: a request that contributes several fragments gets exactly one -vf,
\* whose value is all of them, comma-joined in the order of the appends; an
\* audio request with a filter gets exactly one -af that holds it.
C10_OneFilterChain ==
  /\ (pc = "done" /\ codec \in VideoCodecs /\ "aspect_filters" \in DOMAIN safe
      /\ Len(SelectSeq(VfFragments, NonEmpty)) >= 2) =>
       /\ outcome = "ok"
       /\ CountOf(optlist, "-vf") = 1
       /\ Text(ArgAfter(optlist, "-vf")) = Join(SelectSeq(VfFragments, NonEmpty), ",")
  /\ (pc = "done" /\ codec \in AudioCodecs /\ Truthy(Get(safe, "filters", None))) =>
       /\ outcome = "ok"
       /\ CountOf(optlist, "-af") = 1
       /\ Text(ArgAfter(optlist, "-af")) = Text(safe["filters"])

\* the list holds the flag followed by the text
HasPair(list, flag, text) ==
  \E i \in 1..(Len(list) - 1) : StrEq(list[i], flag) /\ StrEq(list[i + 1], text)

\* the request's value under k is an integer of [lo, hi] once cast
IntWithin(k, lo, hi) ==
  /\ k \in DOMAIN opt
  /\ ToInt(opt[k]).ok
  /\ ToInt(opt[k]).val.v >= lo
  /\ ToInt(opt[k]).val.v <= hi

\* flag is followed by the cast value of k and the suffix if the value is an
\* integer of [lo, hi], and is not in the list otherwise
FlagIffWithin(k, lo, hi, flag, suffix) ==
  IF IntWithin(k, lo, hi)
  THEN /\ CountOf(optlist, flag) = 1
       /\ HasPair(optlist, flag, Cat(IntChars(ToInt(opt[k]).val.v) \o <<suffix>>))
  ELSE CountOf(optlist, flag) = 0

\* C11: a finished call of an audio codec on a matching request has returned
\* a list that holds -ac <n> exactly when channels casts to an integer of
\* [1, 12], -ab <n>k exactly when bitrate casts to one of [8, 512], -ar <n>
\* exactly when samplerate casts to one of [1000, 50000]; each key is judged
\* alone.
C11_AudioFlagsIffInRange ==
  (pc = "done" /\ codec \in AudioCodecs /\ Matching) =>
     /\ outcome = "ok"
     /\ FlagIffWithin("channels", 1, 12, "-ac", "")
     /\ FlagIffWithin("bitrate", 8, 512, "-ab", "k")
     /\ FlagIffWithin("samplerate", 1000, 50000, "-ar", "")

C11_Witness ==
  /\ pc = "done"
  /\ codec = "VorbisCodec"
  /\ Get(opt, "channels", None) = PyInt(2)
  /\ Get(opt, "bitrate", None) = PyInt(999)
  /\ HasPair(optlist, "-ac", "2")
  /\ CountOf(optlist, "-ab") = 0

\* the encoder each subtitle codec names
SubtitleEncoder(c) ==
  CASE c = "MOVTextCodec" -> "mov_text"
    [] c = "SSA" -> "ass"
    [] c = "SubRip" -> "subrip"
    [] c = "DVBSub" -> "dvbsub"
    [] c = "DVDSub" -> "dvdsub"

\* C12: a finished call of a subtitle codec on a matching request has
\* returned exactly -scodec and the encoder's name, whatever language, forced
\* and default are.
C12_SubtitleListIsTwoElements ==
  (pc = "done" /\ codec \in SubtitleCodecs /\ Matching) =>
     /\ outcome = "ok"
     /\ Len(optlist) = 2
     /\ StrEq(optlist[1], "-scodec")
     /\ StrEq(optlist[2], SubtitleEncoder(codec))

C12_Witness ==
  /\ pc = "done"
  /\ codec = "MOVTextCodec"
  /\ StrEq(Get(opt, "language", None), "eng")
  /\ Get(opt, "forced", None) = PyInt(1)
  /\ "language" \in DOMAIN safe
  /\ Len(optlist) = 2

\* the request carries a sizing policy that is none of the six
UnknownPolicy ==
  /\ "sizing_policy" \in DOMAIN opt
  /\ Cat(ToStr(opt["sizing_policy"]).val.v) \notin SizingPolicies

\* a diagnostic about the sizing policy has been emitted
PolicyDiagnostic ==
  \E i \in 1..Len(loc.diag) : loc.diag[i] = Cat(<<"invalid option ", loc.sizing_policy>>)

\* C13: with a sizing policy that is none of the six, the resolver returns the
\* source size and no filter, emits a diagnostic and does not fail, when it is
\* called on its own and when parse_options is called with such a request.
C13_UnknownPolicyDiagnosed ==
  /\ (pc = "returned" /\ loc.sizing_policy \notin SizingPolicies) =>
       /\ outcome = "ok"
       /\ loc.w = loc.sw /\ loc.h = loc.sh /\ loc.filters = None
       /\ PolicyDiagnostic
  /\ (codec \in VideoCodecs /\ Matching /\ UnknownPolicy) =>
       /\ pc = "corrected" =>
            loc.w = loc.sw /\ loc.h = loc.sh /\ loc.filters = None
       /\ pc = "done" =>
            /\ outcome = "ok"
            /\ \E i \in 1..Len(loc.diag) :
                 loc.diag[i] = Cat(<<"invalid option ">> \o ToStr(opt["sizing_policy"]).val.v)

\* the texts of a list
Texts(list) == [i \in 1..Len(list) |-> Text(list[i])]

\* what the null and copy codecs are to return
PseudoList(c) ==
  CASE c = "AudioNullCodec" -> <<"-an">>
    [] c = "VideoNullCodec" -> <<"-vn">>
    [] c = "SubtitleNullCodec" -> <<"-sn">>
    [] c = "AudioCopyCodec" -> <<"-acodec", "copy">>
    [] c = "VideoCopyCodec" -> <<"-vcodec", "copy">>
    [] c = "SubtitleCopyCodec" -> <<"-scodec", "copy">>

\* C14: a call of a null or copy codec, whatever the request holds, returns
\* the codec's fixed list; nothing is filtered or validated on the way and the
\* invalid-codec error is not raised.
C14_PseudoCodecsFixedList ==
  codec \in NullCodecs \cup CopyCodecs =>
     /\ pc \in {"called", "done"}
     /\ safe = EmptyDict
     /\ loc = NoLocals
     /\ pc = "done" =>
          /\ outcome = "ok"
          /\ \A i \in 1..Len(optlist) : optlist[i].t = "str"
          /\ Texts(optlist) = PseudoList(codec)

C14_Witness ==
  /\ pc = "done"
  /\ codec = "SubtitleCopyCodec"
  /\ "language" \in DOMAIN opt
  /\ "codec" \in DOMAIN opt
  /\ ~StrEq(opt["codec"], "copy")
  /\ Len(optlist) = 2

\* the validated fields of an nvenc variant
NvencRows(c) == IF c = "H264NvencCodec" THEN H264NvencRows ELSE HEVCNvencRows

\* the fields sf holds with a value outside the enumerated set or the range
InvalidFields(c, sf) ==
  {i \in 1..Len(NvencRows(c)) :
     /\ NvencRows(c)[i].key \in DOMAIN sf
     /\ ~RowValid(NvencRows(c)[i], sf[NvencRows(c)[i].key])}

\* list holds the field's flag followed by its default value (by any text
\* where the code names no default)
Defaulted(list, row) ==
  \E j \in 1..(Len(list) - 1) :
     /\ Text(list[j]) = "-" \o row.key
     /\ list[j + 1].t = "str"
     /\ row.dflt # "" => Text(list[j + 1]) = row.dflt

\* diag holds the message that names the field and its value a
Diagnosed(diag, row, a) ==
  \E j \in 1..Len(diag) :
     diag[j] = RowMessage([row EXCEPT !.said = IF row.test = "in" THEN "raw" ELSE "str"], a)

\* C15: in the two nvenc variants every field of the safe options whose value
\* is outside its set or range gets a diagnostic and its flag with the default
\* value, and the hook returns normally.
C15_NvencInvalidFieldDefaulted ==
  codec \in {"H264NvencCodec", "HEVCNvencCodec"} =>
     /\ pc = "resolved" =>
          \A i \in InvalidFields(codec, safe) :
             /\ CodecSpecificProduce(codec, safe).exc = "none"
             /\ Defaulted(CodecSpecificProduce(codec, safe).list, NvencRows(codec)[i])
             /\ Diagnosed(CodecSpecificProduce(codec, safe).diag, NvencRows(codec)[i],
                       safe[NvencRows(codec)[i].key])
     /\ (pc = "done" /\ outcome = "ok") =>
          \A i \in InvalidFields(codec, safe) :
             /\ Defaulted(optlist, NvencRows(codec)[i])
             /\ Diagnosed(loc.diag, NvencRows(codec)[i], safe[NvencRows(codec)[i].key])

\* C15 without the delay field and without the three fields whose else branch
\* fails in the HEVC variant
NvencSound(c) ==
  {i \in 1..Len(NvencRows(c)) : NvencRows(c)[i].bad = "default"}

C15_SoundFieldsDefaulted ==
  (codec \in {"H264NvencCodec", "HEVCNvencCodec"} /\ pc = "resolved"
   /\ InvalidFields(codec, safe) \subseteq NvencSound(codec)) =>
     \A i \in InvalidFields(codec, safe) :
        /\ CodecSpecificProduce(codec, safe).exc = "none"
        /\ Defaulted(CodecSpecificProduce(codec, safe).list, NvencRows(codec)[i])
        /\ Diagnosed(CodecSpecificProduce(codec, safe).diag, NvencRows(codec)[i],
                       safe[NvencRows(codec)[i].key])

\* sf with the effective maxima w and h of the range stage in the place of
\* the requested ones: a dropped maximum is no key
WithMaxima(sf, w, h) ==
  LET s1 == IF w = None THEN Del(sf, "max_width") ELSE Put(sf, "max_width", w)
  IN  IF h = None THEN Del(s1, "max_height") ELSE Put(s1, "max_height", h)

\* maxima at the edges of the ranges of lines 352 and 359
EdgeMaxima == {15, 16, 17, 2999, 3000, 3001, 3999, 4000, 4001}

\* C16: the range stage applied to what came out of the range stage removes
\* no key and changes no value: the audio and subtitle rules leave the mapping
\* as it is, the video rules leave the mapping, the effective maxima and the
\* policy as they are.
C16_RangeStageIdempotent ==
  pc = "validated" =>
     /\ codec \in AudioCodecs => AudioRange(safe) = safe
     /\ codec \in SubtitleCodecs => SubtitleRange(safe) = safe
     /\ codec \in VideoCodecs =>
          /\ VideoRange(safe).safe = safe
          /\ VideoRange(WithMaxima(safe, loc.max_width, loc.max_height)).safe
               = WithMaxima(safe, loc.max_width, loc.max_height)
          /\ VideoRange(WithMaxima(safe, loc.max_width, loc.max_height)).w = loc.max_width
          /\ VideoRange(WithMaxima(safe, loc.max_width, loc.max_height)).h = loc.max_height
          /\ VideoRange(WithMaxima(safe, loc.max_width, loc.max_height)).sizing_policy
               = loc.sizing_policy
          /\ \A n \in EdgeMaxima :
               LET once == MaxDimension(Put(safe, "max_width", PyInt(n)), "max_width", 16, 4000)
                   high == MaxDimension(Put(safe, "max_height", PyInt(n)), "max_height", 16, 3000)
               IN  /\ once # None =>
                        MaxDimension(Put(safe, "max_width", once), "max_width", 16, 4000) = once
                   /\ high # None =>
                        MaxDimension(Put(safe, "max_height", high), "max_height", 16, 3000) = high

\* an odd maximum was raised by one and an out-of-range one dropped
C16_Witness ==
  /\ pc = "validated"
  /\ codec \in VideoCodecs
  /\ "max_height" \in DOMAIN safe /\ safe["max_height"] = PyInt(481)
  /\ loc.max_height = PyInt(482)
  /\ "max_width" \in DOMAIN safe /\ safe["max_width"] = PyInt(1)
  /\ loc.max_width = None
  /\ "bufsize" \in DOMAIN opt /\ "bufsize" \notin DOMAIN safe

\* an audio request and a subtitle request that lost a key in the stage
C16_WitnessAudio ==
  /\ pc = "validated"
  /\ codec \in AudioCodecs
  /\ "bitrate" \in DOMAIN opt /\ "bitrate" \notin DOMAIN safe
  /\ "channels" \in DOMAIN safe

\* C17: every element of a returned argument list is a string.
C17_ListOfStrings ==
  (pc = "done" /\ outcome = "ok") => \A i \in 1..Len(optlist) : optlist[i].t = "str"

\* what parse_options(o) returns or raises on codec c when it is the first
\* call of the process
FirstCall(c, o) ==
  IF c \in NullCodecs \cup CopyCodecs THEN Built(PseudoParseOptions(c))
  ELSE IF BaseParseOptions(c, o) # "none" THEN Raised(BaseParseOptions(c, o))
  ELSE IF c \in AudioCodecs THEN AudioProduce(c, AudioRange(SafeOptions(c, o)))
  ELSE IF c \in SubtitleCodecs THEN SubtitleProduce(c, SubtitleRange(SafeOptions(c, o)))
  ELSE IF VideoGeometry(VideoRange(SafeOptions(c, o))).exc # "none"
  THEN Raised(VideoGeometry(VideoRange(SafeOptions(c, o))).exc)
  ELSE VideoProduce(c, VideoGeometry(VideoRange(SafeOptions(c, o))).safe,
                    VideoGeometry(VideoRange(SafeOptions(c, o))).w,
                    VideoGeometry(VideoRange(SafeOptions(c, o))).h)

GuardHolds ==
  ~Truthy(loc.max_width) \/ ~Truthy(loc.max_height) \/ ~Truthy(loc.sw) \/ ~Truthy(loc.sh)

\* C19: when a maximum or an effective source dimension is missing, the
\* geometry resolver returns the maxima as they are, with no filter, whatever
\* the sizing policy; on a direct call and within parse_options.
C19_GuardReturnsMaxima ==
  (pc \in {"returned", "corrected"} /\ GuardHolds) =>
     /\ loc.w = loc.max_width
     /\ loc.h = loc.max_height
     /\ loc.filters = None

\* what the code does in that case: the source size is returned, with no
\* filter and no diagnostic, whatever the sizing policy
C19_GuardReturnsSource ==
  (pc \in {"returned", "corrected"} /\ GuardHolds) =>
     /\ loc.w = loc.sw
     /\ loc.h = loc.sh
     /\ loc.filters = None
     /\ loc.diag = <<>>

\* C20: ShrinkToFit never scales up: the width and the height the resolver
\* returns exceed the source's by no more than the pixel of the even rounding;
\* on a direct call and within parse_options.
C20_ShrinkToFitNeverUpscales ==
  (pc \in {"returned", "corrected"} /\ loc.sizing_policy = "ShrinkToFit" /\ ~GuardHolds) =>
     /\ loc.w.t = "int" /\ loc.h.t = "int"
     /\ loc.w.v <= loc.sw.v + 1
     /\ loc.h.v <= loc.sh.v + 1

\* the options as safe_options has returned them, before the range stage
Declared == SafeOptions(codec, opt)

\* the parts of the crop option
CropParts == Split(Declared["crop"].v, ":")

\* the crop option has four parts of which the first two are integers
CropParses ==
  /\ "crop" \in DOMAIN Declared
  /\ Len(CropParts) = 4
  /\ ParseInt(CropParts[1]).ok
  /\ ParseInt(CropParts[2]).ok

\* ... and both integers lie in [16, 3000]
CropTaken ==
  /\ CropParses
  /\ ParseInt(CropParts[1]).val \in 16..3000
  /\ ParseInt(CropParts[2]).val \in 16..3000

\* C21: after the range stage of a video codec the effective source size is
\* the crop's W and H when the crop option is W:H:X:Y with both integers in
\* [16, 3000], and the declared src_width and src_height (each possibly
\* absent) in every other case; a crop that does not parse is removed from
\* the options, and the stage does not fail.
C21_CropIsSourceSize ==
  (pc = "validated" /\ codec \in VideoCodecs) =>
     /\ outcome = "none"
     /\ CropTaken =>
          /\ loc.sw = PyInt(ParseInt(CropParts[1]).val)
          /\ loc.sh = PyInt(ParseInt(CropParts[2]).val)
     /\ ~CropTaken =>
          /\ loc.sw = Get(Declared, "src_width", None)
          /\ loc.sh = Get(Declared, "src_height", None)
     /\ ("crop" \in DOMAIN Declared /\ ~CropParses) => "crop" \notin DOMAIN safe

\* C21 without the crops of four parts whose W or H is no integer: what the
\* code does for every other crop
C21_CropIsSourceSizeUnlessText ==
  (pc = "validated" /\ codec \in VideoCodecs
   /\ ("crop" \in DOMAIN Declared => (CropParses \/ Len(CropParts) # 4))) =>
     /\ outcome = "none"
     /\ CropTaken =>
          /\ loc.sw = PyInt(ParseInt(CropParts[1]).val)
          /\ loc.sh = PyInt(ParseInt(CropParts[2]).val)
          /\ "crop" \in DOMAIN safe
     /\ ~CropTaken =>
          /\ loc.sw = Get(Declared, "src_width", None)
          /\ loc.sh = Get(Declared, "src_height", None)
     /\ ("crop" \in DOMAIN Declared /\ ~CropParses) => "crop" \notin DOMAIN safe

\* the fragments of the chain other than aspect=: the crop of the geometry,
\* the crop option, the autorotate filter and the filters of the request
OtherFragments ==
  <<Text(loc.filters),
    IF Truthy(Get(safe, "crop", None)) THEN Cat(<<"crop=", Text(safe["crop"])>>) ELSE "",
    IF Truthy(Get(safe, "autorotate", None)) /\ "src_rotate" \in DOMAIN safe
    THEN Text(Autorotate(safe["src_rotate"].v)) ELSE "",
    Text(Get(safe, "filters", None))>>

\* the orders four fragments can come in
Orders == {p \in [1..4 -> 1..4] : \A i, j \in 1..4 : p[i] = p[j] => i = j}

\* C22: an MPEG-1 or MPEG-2 request whose width and height are resolved
\* returns a list with one -vf, whose value is aspect=<w>:<h> followed by the
\* other fragments of the chain.
C22_MpegAspectFirst ==
  (pc = "done" /\ codec \in MpegCodecs /\ "aspect_filters" \in DOMAIN safe
   /\ Truthy(safe["max_width"]) /\ Truthy(safe["max_height"])) =>
     /\ outcome = "ok"
     /\ CountOf(optlist, "-vf") = 1
     /\ \E p \in Orders :
          Text(ArgAfter(optlist, "-vf"))
            = Join(<<Cat(<<"aspect=", IntText(safe["max_width"].v), ":",
                          IntText(safe["max_height"].v)>>)>>
                   \o SelectSeq([i \in 1..4 |-> OtherFragments[p[i]]], NonEmpty), ",")

\* what the code does with such a request: the hook puts aspect=<w>:<h> ahead
\* of the crop of the geometry in aspect_filters, and line 436 raises
C22_MpegAspectRaises ==
  (pc = "done" /\ codec \in MpegCodecs /\ "aspect_filters" \in DOMAIN safe
   /\ Truthy(safe["max_width"]) /\ Truthy(safe["max_height"])) =>
     /\ outcome = "TypeError"
     /\ optlist = <<>>
     /\ Text(safe["aspect_filters"])
          = Join(SelectSeq(<<Cat(<<"aspect=", IntText(safe["max_width"].v), ":",
                                  IntText(safe["max_height"].v)>>),
                             Text(loc.filters)>>, NonEmpty), ",")

====
